---- MODULE Spec2Model ----
(***************************************************************************)
(* A model of chebpy/core/algorithms.py: the numerical kernels of chebpy   *)
(* (Clenshaw and barycentric evaluation, standard_chop and the adaptive    *)
(* constructor, coefficient multiplication, the value/coefficient          *)
(* transforms, rootsunit and newtonroots).                                 *)
(*                                                                         *)
(* The module is a library of functions without shared state, so the state *)
(* of the model is one activation record per function: its inputs, the     *)
(* position of the call ("pc") and its locals or result.  Every function   *)
(* has a specification of its own (SpecClenshaw, SpecChop, ...) in which   *)
(* the other activation records stay Idle.                                 *)
(*                                                                         *)
(* Arithmetic is exact: integers, rationals (Section "Rationals"), IEEE    *)
(* specials where the code relies on them (inf, nan) and, for the FFTs,    *)
(* the cyclotomic field Q(i, w_N).  Python indices are 0-based: At(s, i)   *)
(* is the code's s[i].                                                     *)
(***************************************************************************)
EXTENDS Integers, Sequences, FiniteSets, TLC

VARIABLES
    clenshawRun,    \* activation of clenshaw(xx, ak)
    newtonRun,      \* activation of newtonroots(fun, rts, tol, maxiter)
    chopRun,        \* activation of standard_chop(coeffs, tol)
    adaptiveRun,    \* activation of adaptive(cls, fun, maxpow2)
    coeffmultRun,   \* activation of coeffmult(fc, gc)
    transformRun,   \* activation of coeffs2vals2(vals2coeffs2(vals))
    rootsunitRun,   \* activation of rootsunit(ak, htol)
    baryRun         \* activation of bary(xx, fk, xk, vk)

vars == <<clenshawRun, newtonRun, chopRun, adaptiveRun, coeffmultRun,
          transformRun, rootsunitRun, baryRun>>

Idle == [pc |-> "idle"]

(* s[i] of a 0-based numpy array *)
At(s, i) == s[i + 1]

Abs(x) == IF x < 0 THEN -x ELSE x

RECURSIVE SeqsUpTo(_, _)
(* all sequences over S of length 0..n *)
SeqsUpTo(S, n) ==
    IF n = 0 THEN {<<>>}
    ELSE LET shorter == SeqsUpTo(S, n - 1)
         IN shorter \cup {Append(s, x) : s \in {t \in shorter : Len(t) = n - 1}, x \in S}

SeqsFromTo(S, lo, hi) == {s \in SeqsUpTo(S, hi) : Len(s) >= lo}

(***************************************************************************)
(* Floating-point values, exactly: a value is a rational n/d in lowest     *)
(* terms (d > 0), or one of the IEEE specials +inf, -inf, nan that numpy   *)
(* produces on a division by zero.  The sign of a zero is not kept: x/0 is *)
(* taken as x/+0, which is what x - x = +0 gives in the code.              *)
(***************************************************************************)
RECURSIVE GcdNat(_, _)
GcdNat(a, b) == IF b = 0 THEN a ELSE GcdNat(b, a % b)

GCD(a, b) == GcdNat(Abs(a), Abs(b))

Sign(x) == IF x > 0 THEN 1 ELSE IF x < 0 THEN -1 ELSE 0

Rat(n, d) ==
    LET g == GCD(n, d)
        s == IF d < 0 THEN -1 ELSE 1
    IN [k |-> "fin", n |-> (s * n) \div g, d |-> (s * d) \div g]

Fin(n) == [k |-> "fin", n |-> n, d |-> 1]
PosInf == [k |-> "inf", n |-> 1, d |-> 0]
NegInf == [k |-> "inf", n |-> -1, d |-> 0]
NaN == [k |-> "nan", n |-> 0, d |-> 0]

IsNaN(a) == a.k = "nan"
IsFin(a) == a.k = "fin"
SignedInf(s) == IF s > 0 THEN PosInf ELSE NegInf

XNeg(a) == [a EXCEPT !.n = 0 - a.n]

XAbs(a) == [a EXCEPT !.n = Abs(a.n)]

XAdd(a, b) ==
    IF IsNaN(a) \/ IsNaN(b) THEN NaN
    ELSE IF a.k = "inf" /\ b.k = "inf" THEN (IF a.n = b.n THEN a ELSE NaN)
    ELSE IF a.k = "inf" THEN a
    ELSE IF b.k = "inf" THEN b
    ELSE Rat(a.n * b.d + b.n * a.d, a.d * b.d)

XSub(a, b) == XAdd(a, XNeg(b))

XMul(a, b) ==
    IF IsNaN(a) \/ IsNaN(b) THEN NaN
    ELSE IF a.k = "inf" \/ b.k = "inf"
         THEN (IF a.n = 0 \/ b.n = 0 THEN NaN ELSE SignedInf(Sign(a.n) * Sign(b.n)))
    ELSE Rat(a.n * b.n, a.d * b.d)

XDiv(a, b) ==
    IF IsNaN(a) \/ IsNaN(b) THEN NaN
    ELSE IF a.k = "inf" /\ b.k = "inf" THEN NaN
    ELSE IF a.k = "inf" THEN SignedInf(a.n * (IF b.n < 0 THEN -1 ELSE 1))
    ELSE IF b.k = "inf" THEN Fin(0)
    ELSE IF b.n = 0 THEN (IF a.n = 0 THEN NaN ELSE SignedInf(a.n))
    ELSE Rat(a.n * b.d, a.d * b.n)

(* a > b as numpy compares: False when either side is nan *)
XGt(a, b) ==
    IF IsNaN(a) \/ IsNaN(b) THEN FALSE
    ELSE IF a.k = "inf" THEN a.n > 0 /\ b # PosInf
    ELSE IF b.k = "inf" THEN b.n < 0
    ELSE a.n * b.d > b.n * a.d

(* max of a and b as numpy's maximum takes it: nan wins *)
XMax(a, b) == IF IsNaN(a) \/ IsNaN(b) THEN NaN ELSE IF XGt(b, a) THEN b ELSE a

RECURSIVE XSum(_)
XSum(s) == IF s = <<>> THEN Fin(0) ELSE XAdd(Head(s), XSum(Tail(s)))

RECURSIVE XMaxAll(_)
(* max over a non-empty array *)
XMaxAll(s) == IF Len(s) = 1 THEN s[1] ELSE XMax(s[1], XMaxAll(Tail(s)))

(***************************************************************************)
(* Bounds of the model                                                     *)
(***************************************************************************)
MaxCoeffs == 4      \* longest coefficient sequence given to clenshaw
MaxPts == 2         \* longest array of evaluation points given to clenshaw
MaxAbsPt == 2       \* evaluation points are the integers -MaxAbsPt..MaxAbsPt

CoefVals == -1 .. 1
PtVals == (0 - MaxAbsPt) .. MaxAbsPt

(***************************************************************************)
(* clenshaw (algorithms.py 154-168)                                        *)
(***************************************************************************)

(* idx[ak.size:1:-2] for idx = range(ak.size): n-1, n-3, ... while > 1 *)
PairIdx(n) == [i \in 1 .. ((n - 1) \div 2) |-> n + 1 - 2 * i]

RECURSIVE ClenshawLoop(_, _, _, _, _)
(* the for loop of lines 162-164 at one point; x2 is the doubled point of
   line 160; the result is <<bk1, bk2>> after the loop *)
ClenshawLoop(x2, ak, ks, bk1, bk2) ==
    IF ks = <<>> THEN <<bk1, bk2>>
    ELSE LET k == Head(ks)
             nbk2 == At(ak, k) + x2 * bk1 - bk2
             nbk1 == At(ak, k - 1) + x2 * nbk2 - bk1
         IN ClenshawLoop(x2, ak, Tail(ks), nbk1, nbk2)

(* as ClenshawPoint, without the unpaired step of lines 165-166 *)
ClenshawPointNoUnpaired(x, ak) ==
    LET x2 == 2 * x
        b == ClenshawLoop(x2, ak, PairIdx(Len(ak)), 0, 0)
    IN At(ak, 0) + ((x2 * b[1]) \div 2) - b[2]

(* lines 158-167 at one point x of xx *)
ClenshawPoint(x, ak) ==
    LET x2 == 2 * x
        b == ClenshawLoop(x2, ak, PairIdx(Len(ak)), 0, 0)
        odd == ((Len(ak) - 1) % 2) = 1
        bk1 == IF odd THEN At(ak, 1) + x2 * b[1] - b[2] ELSE b[1]
        bk2 == IF odd THEN b[1] ELSE b[2]
    IN At(ak, 0) + ((x2 * bk1) \div 2) - bk2

(* the whole function: numpy applies every operation elementwise over xx *)
clenshaw(xx, ak) == [i \in DOMAIN xx |-> ClenshawPoint(xx[i], ak)]

ClenshawInit ==
    /\ newtonRun = Idle /\ chopRun = Idle /\ adaptiveRun = Idle
    /\ coeffmultRun = Idle /\ transformRun = Idle /\ rootsunitRun = Idle
    /\ baryRun = Idle
    /\ clenshawRun \in [pc : {"call"},
                     xx : SeqsFromTo(PtVals, 1, MaxPts),
                     ak : SeqsFromTo(CoefVals, 1, MaxCoeffs)]

ClenshawCall ==
    /\ clenshawRun.pc = "call"
    /\ clenshawRun' = [pc |-> "done", xx |-> clenshawRun.xx, ak |-> clenshawRun.ak,
                       out |-> clenshaw(clenshawRun.xx, clenshawRun.ak)]
    /\ UNCHANGED <<newtonRun, chopRun, adaptiveRun, coeffmultRun, transformRun,
                   rootsunitRun, baryRun>>

ClenshawNext == ClenshawCall

SpecClenshaw == ClenshawInit /\ [][ClenshawNext]_vars

(* ---- C10 ---- *)

RECURSIVE ChebT(_, _)
(* T_0 = 1, T_1 = x, T_{k+1} = 2 x T_k - T_{k-1} *)
ChebT(k, x) ==
    IF k = 0 THEN 1
    ELSE IF k = 1 THEN x
    ELSE 2 * x * ChebT(k - 1, x) - ChebT(k - 2, x)

RECURSIVE ChebSeries(_, _, _)
(* sum_{k=0}^{upto} a_k T_k(x) *)
ChebSeries(ak, x, upto) ==
    IF upto < 0 THEN 0
    ELSE At(ak, upto) * ChebT(upto, x) + ChebSeries(ak, x, upto - 1)

(* C10: for every coefficient sequence of length n >= 1 (even or odd, n = 1
   and n = 2 included) and every point x, clenshaw returns
   sum_{k<n} a_k T_k(x), one output per evaluation point. *)
C10_ClenshawIsSeries ==
    clenshawRun.pc = "done" =>
        /\ Len(clenshawRun.out) = Len(clenshawRun.xx)
        /\ \A i \in DOMAIN clenshawRun.xx :
              clenshawRun.out[i]
                  = ChebSeries(clenshawRun.ak, clenshawRun.xx[i], Len(clenshawRun.ak) - 1)

(* an even-length series with a non-zero T_1 and top coefficient has been
   evaluated at a point other than 0 *)
C10_Witness ==
    /\ clenshawRun.pc = "done"
    /\ Len(clenshawRun.ak) = 4
    /\ At(clenshawRun.ak, 1) # 0
    /\ At(clenshawRun.ak, 3) # 0
    /\ \E i \in DOMAIN clenshawRun.xx : clenshawRun.xx[i] = 2

(***************************************************************************)
(* newtonroots (algorithms.py 326-337)                                     *)
(*                                                                         *)
(* fun and its derivative dfun = fun.diff() are callables of the caller:   *)
(* they are tables over the points NewtonDom, chosen so that the Newton    *)
(* update stays in NewtonDom (dfun is +1 or -1).                           *)
(***************************************************************************)
MaxRoots == 2        \* longest rts given to newtonroots
MaxIterBound == 2    \* maxiter ranges over 0..MaxIterBound
MaxTol == 1          \* tol ranges over 0..MaxTol

NewtonDom == -1 .. 1

(* norm(rts - prv, inf) > tol: the largest absolute difference; a nan entry
   makes the norm nan, and every comparison with nan is False *)
NormExceeds(rts, prv, tol) ==
    XGt(XMaxAll([i \in DOMAIN rts |-> XAbs(XSub(rts[i], prv[i]))]), Fin(tol))

(* rts - fun(rts) / dfun(rts), elementwise *)
NewtonUpdate(fun, dfun, rts) ==
    [i \in DOMAIN rts |->
        XSub(rts[i], XDiv(Fin(fun[rts[i].n]), Fin(dfun[rts[i].n])))]

NewtonFuns ==
    {fd \in [fun : [NewtonDom -> -2 .. 2], dfun : [NewtonDom -> {-1, 1}]] :
        \A x \in NewtonDom : (x - fd.fun[x] * fd.dfun[x]) \in NewtonDom}

NewtonInit ==
    /\ clenshawRun = Idle /\ chopRun = Idle /\ adaptiveRun = Idle
    /\ coeffmultRun = Idle /\ transformRun = Idle /\ rootsunitRun = Idle
    /\ baryRun = Idle
    /\ \E fd \in NewtonFuns, r \in SeqsUpTo(NewtonDom, MaxRoots),
          t \in 0 .. MaxTol, m \in 0 .. MaxIterBound :
          newtonRun = [pc |-> "entry", fun |-> fd.fun, dfun |-> fd.dfun,
                       rts |-> [i \in DOMAIN r |-> Fin(r[i])],
                       prv |-> <<>>, count |-> 0, tol |-> t, maxiter |-> m]

(* line 329 with an empty rts: nothing to polish, line 337 returns rts *)
NewtonEmpty ==
    /\ newtonRun.pc = "entry"
    /\ Len(newtonRun.rts) = 0
    /\ newtonRun' = [newtonRun EXCEPT !.pc = "done"]
    /\ UNCHANGED <<clenshawRun, chopRun, adaptiveRun, coeffmultRun, transformRun,
                   rootsunitRun, baryRun>>

(* lines 329-332: dfun = fun.diff(), prv = inf * rts, count = 0 *)
NewtonEnter ==
    /\ newtonRun.pc = "entry"
    /\ Len(newtonRun.rts) > 0
    /\ newtonRun' = [newtonRun EXCEPT !.pc = "loop",
                        !.prv = [i \in DOMAIN newtonRun.rts |-> XMul(PosInf, newtonRun.rts[i])],
                        !.count = 0]
    /\ UNCHANGED <<clenshawRun, chopRun, adaptiveRun, coeffmultRun, transformRun,
                   rootsunitRun, baryRun>>

(* the guard of line 333 *)
NewtonGuard ==
    /\ NormExceeds(newtonRun.rts, newtonRun.prv, newtonRun.tol)
    /\ newtonRun.count <= newtonRun.maxiter

(* one pass of the loop body, lines 334-336 *)
NewtonIterate ==
    /\ newtonRun.pc = "loop"
    /\ NewtonGuard
    /\ newtonRun' = [newtonRun EXCEPT !.count = @ + 1,
                        !.prv = newtonRun.rts,
                        !.rts = NewtonUpdate(newtonRun.fun, newtonRun.dfun, newtonRun.rts)]
    /\ UNCHANGED <<clenshawRun, chopRun, adaptiveRun, coeffmultRun, transformRun,
                   rootsunitRun, baryRun>>

(* the guard of line 333 fails: line 337 returns rts *)
NewtonReturn ==
    /\ newtonRun.pc = "loop"
    /\ ~NewtonGuard
    /\ newtonRun' = [newtonRun EXCEPT !.pc = "done"]
    /\ UNCHANGED <<clenshawRun, chopRun, adaptiveRun, coeffmultRun, transformRun,
                   rootsunitRun, baryRun>>

NewtonNext == NewtonEmpty \/ NewtonEnter \/ NewtonIterate \/ NewtonReturn

SpecNewton == NewtonInit /\ [][NewtonNext]_vars

(* ---- C9 ---- *)

(* C9: newtonroots terminates and applies at most maxiter Newton updates
   (count counts them: line 334 runs once per update of line 336). *)
C9_AtMostMaxiterUpdates ==
    newtonRun.pc \in {"loop", "done"} => newtonRun.count <= newtonRun.maxiter

(* what the code guarantees instead: at most maxiter + 1 updates, and the
   call is never stuck before it returns *)
C9_AtMostMaxiterPlusOne ==
    /\ newtonRun.pc \in {"loop", "done"} => newtonRun.count <= newtonRun.maxiter + 1
    /\ newtonRun.pc # "done" => ENABLED NewtonNext

(***************************************************************************)
(* standard_chop (algorithms.py 171-224), with the default tol = eps.      *)
(*                                                                         *)
(* Only the magnitudes of the coefficients matter (line 186).  A magnitude *)
(* is exactly zero or tol^(e/12) for an integer level e, so that a larger  *)
(* level is a smaller number.  The inputs use levels that are multiples of *)
(* 3: tol = 2^-52, so these are the powers 2^(-13 e / 3) of two, which     *)
(* floating point holds and divides exactly; tol^(7/6) of lines 215 and    *)
(* 218 is level 14.                                                        *)
(***************************************************************************)
MinChopLen == 17     \* line 182: shorter inputs are returned unchopped
MaxChopLen == 19     \* longest input of standard_chop in SpecChop
TolLevel == 12       \* tol = tol^(12/12)
CutLevel == 14       \* tol^(7/6) = tol^(14/12)

Zero == [z |-> TRUE, e |-> 0]
Lvl(e) == [z |-> FALSE, e |-> e]

ChopMags == {Zero} \cup {Lvl(e) : e \in {0, 6, 9, 12, 15}}

(* max((a, b)) of two magnitudes *)
MagMax(a, b) == IF a.z THEN b ELSE IF b.z THEN a ELSE IF a.e <= b.e THEN a ELSE b

(* lines 187-189: m[j] = max(b[j], m[j+1]) from the tail backward, which is
   the largest of b[j], ..., b[n-1] *)
RunMax(b) ==
    [j \in DOMAIN b |->
        LET tail == {b[i] : i \in j .. Len(b)}
        IN IF \A x \in tail : x.z THEN Zero
           ELSE CHOOSE x \in tail : ~x.z /\ \A y \in tail : MagMax(x, y) = x]

(* line 194: envelope = m / m[0], for m[0] # 0 *)
Envelope(m) == [j \in DOMAIN m |-> IF m[j].z THEN Zero ELSE Lvl(m[j].e - m[1].e)]

(* line 198: round(1.25*j + 5); Python 2 rounds a half away from zero *)
Lookahead(j) == (5 * j + 22) \div 4

(* line 205, e2/e1 > r with r = 3 * (1 - log(e1)/log(tol)) = (12 - e1.e) / 4,
   for e1 # 0 and e2 <= e1.  With e2 = 0 the quotient is 0, which exceeds r
   only when r < 0.  Otherwise the quotient is 1 when the levels agree, and at
   most tol^(1/12) < 1/4 when they differ; r <= 0 from level 12 on, and r < 1
   from level 9 on. *)
RatioExceeds(e1, e2) ==
    IF e2.z THEN e1.e > TolLevel
    ELSE e1.e >= TolLevel \/ (e2.e = e1.e /\ e1.e > 8)

(* line 205 *)
Plateau(envelope, j) ==
    LET e1 == At(envelope, j)
        e2 == At(envelope, Lookahead(j))
    IN e1.z \/ RatioExceeds(e1, e2)

(* the pass of the loop of Step 2 at index j leaves the loop: by the return
   of line 201 or by the break of line 209 *)
ScanStops(envelope, j) == Lookahead(j) > Len(envelope) - 1 \/ Plateau(envelope, j)

(* Step 2, lines 197-209: the loop runs j = 1, 2, ... up to its first pass
   that stops; 0 when that pass is the return of line 201 (no plateau), else
   its index, the plateauPoint *)
Scan(envelope) ==
    LET j == CHOOSE i \in 1 .. (Len(envelope) - 1) :
                 ScanStops(envelope, i) /\ \A h \in 1 .. (i - 1) : ~ScanStops(envelope, h)
    IN IF Lookahead(j) > Len(envelope) - 1 THEN 0 ELSE j

(* line 215: sum(envelope >= tol**(7./6.)) *)
CountAbove(envelope) ==
    Cardinality({i \in DOMAIN envelope : ~envelope[i].z /\ envelope[i].e <= CutLevel})

(* lines 219-220, entry i of cc scaled by 12 (j2 - 1) / -log10(tol):
   log10(envelope[i]) is -e/12 and the ramp is i / (3 (j2 - 1)), both in
   units of -log10(tol).  The log of an exact zero is -inf. *)
CcKey(envelope, i, j2) == 4 * i - At(envelope, i).e * (j2 - 1)

(* line 221: the indices argmin(cc) can return.  Entries of cc that are
   equal in exact arithmetic may round either way, so every index of the
   minimum is a possible result; a -inf entry is below all others. *)
ArgMins(envelope, j2) ==
    LET idx == 0 .. (j2 - 1)
        zeros == {i \in idx : At(envelope, i).z}
    IN IF zeros # {} THEN {CHOOSE i \in zeros : \A k \in zeros : i <= k}
       ELSE {i \in idx : \A k \in idx : CcKey(envelope, i, j2) <= CcKey(envelope, k, j2)}

(* Step 3, lines 212-223: the values cutoff can take *)
Step3Cutoffs(envelope, plateauPoint) ==
    IF At(envelope, plateauPoint).z THEN {plateauPoint}
    ELSE LET j3 == CountAbove(envelope)
             j2 == Lookahead(plateauPoint)
             nj2 == IF j3 < j2 THEN j3 + 1 ELSE j2
             env2 == IF j3 < j2 THEN [envelope EXCEPT ![nj2 + 1] = Lvl(CutLevel)]
                     ELSE envelope
         IN ArgMins(env2, nj2)

Min(a, b) == IF a <= b THEN a ELSE b

(* as standard_chop, with a scan that takes the last index as a plateau
   instead of leaving at line 201 *)
standard_chop_no_exit(coeffs) ==
    LET n == Len(coeffs)
        m == RunMax(coeffs)
        envelope == Envelope(m)
        plateauPoint == Scan(envelope)
    IN IF n < MinChopLen THEN {n}
       ELSE IF m[1].z THEN {1}
       ELSE IF plateauPoint = 0 THEN {n - 1}
       ELSE {Min(c, n - 1) : c \in Step3Cutoffs(envelope, plateauPoint)}

(* the whole function: the set of values it can return *)
standard_chop(coeffs) ==
    LET n == Len(coeffs)
        m == RunMax(coeffs)
        envelope == Envelope(m)
        plateauPoint == Scan(envelope)
    IN IF n < MinChopLen THEN {n}
       ELSE IF m[1].z THEN {1}
       ELSE IF plateauPoint = 0 THEN {n}
       ELSE {Min(c, n - 1) : c \in Step3Cutoffs(envelope, plateauPoint)}

(* a sequence of n magnitudes in three runs: a before index p, b from p to
   q - 1, c from q on *)
Stair(n, p, q, a, b, c) == [i \in 1 .. n |-> IF i <= p THEN a ELSE IF i <= q THEN b ELSE c]

ChopInputs ==
    {Stair(n, p, q, a, b, c) :
        n \in (MinChopLen - 1) .. MaxChopLen, p \in 0 .. MaxChopLen, q \in 0 .. MaxChopLen,
        a \in ChopMags, b \in ChopMags, c \in ChopMags}

ChopInit ==
    /\ clenshawRun = Idle /\ newtonRun = Idle /\ adaptiveRun = Idle
    /\ coeffmultRun = Idle /\ transformRun = Idle /\ rootsunitRun = Idle
    /\ baryRun = Idle
    /\ \E cs \in ChopInputs : chopRun = [pc |-> "call", coeffs |-> cs]

ChopCall ==
    /\ chopRun.pc = "call"
    /\ \E c \in standard_chop(chopRun.coeffs) :
          chopRun' = [pc |-> "done", coeffs |-> chopRun.coeffs, cutoff |-> c]
    /\ UNCHANGED <<clenshawRun, newtonRun, adaptiveRun, coeffmultRun, transformRun,
                   rootsunitRun, baryRun>>

ChopNext == ChopCall

SpecChop == ChopInit /\ [][ChopNext]_vars

(* ---- C2 ---- *)

(* the entries of coeffs at all indices greater than k are exactly zero *)
ZeroBeyond(coeffs, k) == \A i \in (k + 1) .. (Len(coeffs) - 1) : At(coeffs, i).z

(* C2 as claimed: standard_chop never returns a cutoff greater than n, and
   for n >= 17 with an all-zero tail beyond index k (0 <= k < n-1) the
   cutoff is <= k+1. *)
C2_CutoffWithinZeroTail ==
    chopRun.pc = "done" =>
        LET n == Len(chopRun.coeffs)
        IN /\ chopRun.cutoff <= n
           /\ n >= MinChopLen =>
                 \A k \in 0 .. (n - 2) :
                     ZeroBeyond(chopRun.coeffs, k) => chopRun.cutoff <= k + 1

(* C2 as amended: the cutoff never exceeds n; with an all-zero tail beyond
   index k it is <= k+1 or the unchanged length n, and it is <= k+1 whenever
   the lookahead index round(1.25 (k+1) + 5) of index k+1 is within the
   array. *)
C2_CutoffWithinZeroTailOrNoPlateau ==
    chopRun.pc = "done" =>
        LET n == Len(chopRun.coeffs)
        IN /\ chopRun.cutoff <= n
           /\ n >= MinChopLen =>
                 \A k \in 0 .. (n - 2) :
                     ZeroBeyond(chopRun.coeffs, k) =>
                        /\ chopRun.cutoff <= k + 1 \/ chopRun.cutoff = n
                        /\ Lookahead(k + 1) <= n - 1 => chopRun.cutoff <= k + 1

(* a sequence of length >= 17 with a non-zero head and zeros from index 5 on
   was chopped at the first zero *)
C2_Witness ==
    /\ chopRun.pc = "done"
    /\ Len(chopRun.coeffs) >= MinChopLen
    /\ ~At(chopRun.coeffs, 4).z
    /\ ZeroBeyond(chopRun.coeffs, 4)
    /\ chopRun.cutoff = 5

(***************************************************************************)
(* adaptive (algorithms.py 227-244)                                        *)
(*                                                                         *)
(* cls._chebpts, fun and cls._vals2coeffs belong to the caller: one pass   *)
(* of the loop obtains some coefficient sequence of length 2^k + 1, here   *)
(* any sequence of AdaptiveInputs(n).  The record keeps the history of the *)
(* passes (steps) and the number of warnings emitted (warned).             *)
(***************************************************************************)
MinPow2 == 4         \* line 231: the first exponent
MaxPow2 == 6         \* maxpow2 ranges over MinPow2..MaxPow2

RECURSIVE Pow2(_)
Pow2(k) == IF k = 0 THEN 1 ELSE 2 * Pow2(k - 1)

AdaptiveMags == {Zero, Lvl(0), Lvl(15)}

AdaptiveInputs(n) ==
    {Stair(n, p, q, a, b, c) :
        p \in {2, 5}, q \in {8, n - 1},
        a \in AdaptiveMags, b \in AdaptiveMags, c \in AdaptiveMags}

AdaptiveInit ==
    /\ clenshawRun = Idle /\ newtonRun = Idle /\ chopRun = Idle
    /\ coeffmultRun = Idle /\ transformRun = Idle /\ rootsunitRun = Idle
    /\ baryRun = Idle
    /\ \E m \in MinPow2 .. MaxPow2 :
          adaptiveRun = [pc |-> "loop", maxpow2 |-> m, k |-> MinPow2, coeffs |-> <<>>,
                         steps |-> <<>>, warned |-> 0, result |-> <<>>]

(* lines 232-236 of the pass for exponent k: the sequences coeffs and the
   values chplen it can produce *)
AdaptivePass(k) ==
    UNION {{[coeffs |-> cs, chplen |-> c] : c \in standard_chop(cs)} :
              cs \in AdaptiveInputs(Pow2(k) + 1)}

(* as AdaptiveConverged, with the test of line 240 ahead of the test of
   line 237: a chop at the last exponent is reported as non-convergence *)
AdaptiveConvergedWarns ==
    /\ adaptiveRun.pc = "loop"
    /\ \E s \in AdaptivePass(adaptiveRun.k) :
          /\ s.chplen < Len(s.coeffs)
          /\ adaptiveRun' = [adaptiveRun EXCEPT
                !.pc = "done",
                !.coeffs = s.coeffs,
                !.steps = Append(@, [k |-> adaptiveRun.k, n |-> Len(s.coeffs),
                                     chplen |-> s.chplen]),
                !.warned = IF adaptiveRun.k = adaptiveRun.maxpow2 THEN @ + 1 ELSE @,
                !.result = SubSeq(s.coeffs, 1, s.chplen)]
    /\ UNCHANGED <<clenshawRun, newtonRun, chopRun, coeffmultRun, transformRun,
                   rootsunitRun, baryRun>>

(* a pass that ends at line 239: the chop dropped something *)
AdaptiveConverged ==
    /\ adaptiveRun.pc = "loop"
    /\ \E s \in AdaptivePass(adaptiveRun.k) :
          /\ s.chplen < Len(s.coeffs)
          /\ adaptiveRun' = [adaptiveRun EXCEPT
                !.pc = "done",
                !.coeffs = s.coeffs,
                !.steps = Append(@, [k |-> adaptiveRun.k, n |-> Len(s.coeffs),
                                     chplen |-> s.chplen]),
                !.result = SubSeq(s.coeffs, 1, s.chplen)]
    /\ UNCHANGED <<clenshawRun, newtonRun, chopRun, coeffmultRun, transformRun,
                   rootsunitRun, baryRun>>

(* as AdaptiveGiveUp, without the warning of lines 241-242 *)
AdaptiveGiveUpSilent ==
    /\ adaptiveRun.pc = "loop"
    /\ adaptiveRun.k = adaptiveRun.maxpow2
    /\ \E s \in AdaptivePass(adaptiveRun.k) :
          /\ ~(s.chplen < Len(s.coeffs))
          /\ adaptiveRun' = [adaptiveRun EXCEPT
                !.pc = "done",
                !.coeffs = s.coeffs,
                !.steps = Append(@, [k |-> adaptiveRun.k, n |-> Len(s.coeffs),
                                     chplen |-> s.chplen]),
                !.result = s.coeffs]
    /\ UNCHANGED <<clenshawRun, newtonRun, chopRun, coeffmultRun, transformRun,
                   rootsunitRun, baryRun>>

(* a pass that ends at line 243: no chop at the last exponent *)
AdaptiveGiveUp ==
    /\ adaptiveRun.pc = "loop"
    /\ adaptiveRun.k = adaptiveRun.maxpow2
    /\ \E s \in AdaptivePass(adaptiveRun.k) :
          /\ ~(s.chplen < Len(s.coeffs))
          /\ adaptiveRun' = [adaptiveRun EXCEPT
                !.pc = "done",
                !.coeffs = s.coeffs,
                !.steps = Append(@, [k |-> adaptiveRun.k, n |-> Len(s.coeffs),
                                     chplen |-> s.chplen]),
                !.warned = @ + 1,
                !.result = s.coeffs]
    /\ UNCHANGED <<clenshawRun, newtonRun, chopRun, coeffmultRun, transformRun,
                   rootsunitRun, baryRun>>

(* a pass that falls through both tests: on to the next exponent *)
AdaptiveContinue ==
    /\ adaptiveRun.pc = "loop"
    /\ adaptiveRun.k # adaptiveRun.maxpow2
    /\ \E s \in AdaptivePass(adaptiveRun.k) :
          /\ ~(s.chplen < Len(s.coeffs))
          /\ adaptiveRun' = [adaptiveRun EXCEPT
                !.k = @ + 1,
                !.coeffs = s.coeffs,
                !.steps = Append(@, [k |-> adaptiveRun.k, n |-> Len(s.coeffs),
                                     chplen |-> s.chplen])]
    /\ UNCHANGED <<clenshawRun, newtonRun, chopRun, coeffmultRun, transformRun,
                   rootsunitRun, baryRun>>

AdaptiveNext == AdaptiveConverged \/ AdaptiveGiveUp \/ AdaptiveContinue

SpecAdaptive == AdaptiveInit /\ [][AdaptiveNext]_vars
(* ---- C5, C6 ---- *)

(* the pass recorded as step s chopped: chplen < coeffs.size *)
Chopped(s) == s.chplen < s.n

(* C5: adaptive samples at 2^k + 1 points for k = 4, 5, ... in increasing
   order and stops at the first k whose chop length is strictly less than
   the number of coefficients; it then returns exactly the first chplen
   coefficients of that pass, runs no later pass and emits no diagnostic. *)
C5_StopsAtFirstChop ==
    LET steps == adaptiveRun.steps
    IN /\ \A i \in DOMAIN steps :
             /\ steps[i].k = MinPow2 + i - 1
             /\ steps[i].n = Pow2(steps[i].k) + 1
       /\ \A i \in DOMAIN steps :
             Chopped(steps[i]) =>
                /\ i = Len(steps)
                /\ adaptiveRun.pc = "done"
                /\ adaptiveRun.result = SubSeq(adaptiveRun.coeffs, 1, steps[i].chplen)
                /\ Len(adaptiveRun.coeffs) = steps[i].n
                /\ adaptiveRun.warned = 0
       /\ adaptiveRun.pc = "done" => ~ENABLED AdaptiveNext

(* the second pass chopped its 33 coefficients to more than one *)
C5_Witness ==
    /\ adaptiveRun.pc = "done"
    /\ Len(adaptiveRun.steps) = 2
    /\ Chopped(adaptiveRun.steps[2])
    /\ Len(adaptiveRun.result) > 1
    /\ Len(adaptiveRun.result) < Len(adaptiveRun.coeffs)

(* C6: adaptive emits the non-convergence diagnostic if and only if no
   exponent k in 4..maxpow2 gives a chop length below the number of
   coefficients; it then still returns, has warned exactly once, and the
   result is the whole sequence of 2^maxpow2 + 1 coefficients of the last
   pass. *)
C6_WarnsIffNoChop ==
    LET steps == adaptiveRun.steps
    IN /\ adaptiveRun.pc = "loop" => adaptiveRun.warned = 0
       /\ adaptiveRun.pc = "done" =>
             /\ adaptiveRun.warned \in {0, 1}
             /\ adaptiveRun.warned = 1 <=>
                   /\ \A i \in DOMAIN steps : ~Chopped(steps[i])
                   /\ {steps[i].k : i \in DOMAIN steps} = MinPow2 .. adaptiveRun.maxpow2
             /\ adaptiveRun.warned = 0 => \E i \in DOMAIN steps : Chopped(steps[i])
             /\ adaptiveRun.warned = 1 =>
                   /\ adaptiveRun.result = adaptiveRun.coeffs
                   /\ Len(adaptiveRun.result) = Pow2(adaptiveRun.maxpow2) + 1

(* a run with maxpow2 > 4 ended with the warning after passes that never
   chopped *)
C6_Witness ==
    /\ adaptiveRun.pc = "done"
    /\ adaptiveRun.warned = 1
    /\ adaptiveRun.maxpow2 > MinPow2
    /\ Len(adaptiveRun.steps) = adaptiveRun.maxpow2 - MinPow2 + 1

(***************************************************************************)
(* rootsunit (algorithms.py 47-107), for inputs of at most MaxRootCoeffs   *)
(* coefficients: standard_chop returns their length (line 182) and the     *)
(* subdivision of lines 67-79 is not entered.                              *)
(*                                                                         *)
(* Numbers are exact rationals.  A candidate root is a complex number      *)
(* [re, im].  eigvals of the 2 x 2 colleague matrix of three coefficients  *)
(* is the pair of roots of its characteristic polynomial, found among the  *)
(* candidates of EigGrid: the inputs of three coefficients are the series  *)
(* whose two roots are on that grid.                                       *)
(***************************************************************************)
MaxRootCoeffs == 3   \* longest ak given to rootsunit
RootDen == 8         \* roots and htol are multiples of 1/RootDen
MaxRootNum == 11     \* real parts range over -MaxRootNum/RootDen .. MaxRootNum/RootDen

Eighth(n) == Rat(n, RootDen)
Cplx(re, im) == [re |-> re, im |-> im]

HtolVals == {Eighth(1), Eighth(2), Eighth(3)}
RootNums == {0 - MaxRootNum, -10, -9, -8, -3, 0, 3, 8, 9, 10, MaxRootNum}
ImagNums == {-16, -2, -1, 0, 1, 2, 16}
EigGrid == {Cplx(Eighth(r), Eighth(i)) : r \in RootNums, i \in ImagNums}

(* a <= b for finite values *)
XLe(a, b) == ~XGt(a, b)

(* lines 90-95 for n = 3: E = [[0, 1], [.5 - ak[0]/(2 ak[2]), -ak[1]/(2 ak[2])]];
   its trace and determinant *)
ColleagueTrace(ak) == XNeg(XDiv(At(ak, 1), XMul(Fin(2), At(ak, 2))))
ColleagueDet(ak) ==
    XNeg(XSub(Rat(1, 2), XDiv(At(ak, 0), XMul(Fin(2), At(ak, 2)))))

(* line 96: eigvals(E), the two numbers with the trace as sum and the
   determinant as product *)
Eigvals(ak) ==
    LET pair == CHOOSE z \in EigGrid \X EigGrid :
                    /\ XAdd(z[1].re, z[2].re) = ColleagueTrace(ak)
                    /\ XAdd(z[1].im, z[2].im) = Fin(0)
                    /\ XSub(XMul(z[1].re, z[2].re), XMul(z[1].im, z[2].im)) = ColleagueDet(ak)
                    /\ XAdd(XMul(z[1].re, z[2].im), XMul(z[1].im, z[2].re)) = Fin(0)
    IN <<pair[1], pair[2]>>

(* lines 100-102: keep the candidates with a small imaginary part, take
   their real parts, keep those with abs(rts) <= 1 + htol *)
RootFilter(rts, htol) ==
    SelectSeq([i \in DOMAIN rts |-> rts[i]],
              LAMBDA z : /\ XGt(htol, XAbs(z.im))
                         /\ IsFin(z.re)
                         /\ XLe(XAbs(z.re), XAdd(Fin(1), htol)))

RECURSIVE InsertSorted(_, _)
InsertSorted(s, x) ==
    IF s = <<>> THEN <<x>>
    ELSE IF XLe(x, Head(s)) THEN <<x>> \o s
    ELSE <<Head(s)>> \o InsertSorted(Tail(s), x)

RECURSIVE Sort(_)
(* line 103: sort(rts) *)
Sort(s) == IF s = <<>> THEN <<>> ELSE InsertSorted(Sort(Tail(s)), Head(s))

(* lines 104-106: with two or more roots, raise the first to -1 and lower
   the last to 1 *)
ClampEnds(rts) ==
    IF Len(rts) >= 2
    THEN LET lo == [rts EXCEPT ![1] = IF XGt(Fin(-1), rts[1]) THEN Fin(-1) ELSE rts[1]]
         IN [lo EXCEPT ![Len(rts)] = IF XGt(lo[Len(rts)], Fin(1)) THEN Fin(1)
                                      ELSE lo[Len(rts)]]
    ELSE rts

(* the whole function for n <= 50 *)
rootsunit(ak, htol) ==
    LET n == Len(ak)
        cand == IF n = 2 THEN <<Cplx(XDiv(XNeg(At(ak, 0)), At(ak, 1)), Fin(0))>>
                ELSE Eigvals(ak)
        real == RootFilter(cand, htol)
    IN IF n <= 1 THEN <<>>
       ELSE ClampEnds(Sort([i \in DOMAIN real |-> real[i].re]))

(* the series T_2 - 2 (z1 + z2) T_1 + (1 + 2 z1 z2) T_0 = 2 (x - z1)(x - z2) *)
SeriesWithRoots(z) ==
    LET sum == XAdd(z[1].re, z[2].re)
        prod == XSub(XMul(z[1].re, z[2].re), XMul(z[1].im, z[2].im))
    IN <<XAdd(Fin(1), XMul(Fin(2), prod)), XMul(Fin(-2), sum), Fin(1)>>

RootsInputs ==
    {<<>>} \cup {<<Fin(a)>> : a \in {0, 1}}
    \cup {<<Fin(a), Fin(b)>> : a \in RootNums, b \in {-8, 0, 8}}
    \cup {SeriesWithRoots(z) : z \in {y \in EigGrid \X EigGrid :
                                        /\ y[1].im = XNeg(y[2].im)
                                        /\ y[1].im # Fin(0) => y[1].re = y[2].re}}

RootsInit ==
    /\ clenshawRun = Idle /\ newtonRun = Idle /\ chopRun = Idle
    /\ coeffmultRun = Idle /\ transformRun = Idle /\ adaptiveRun = Idle
    /\ baryRun = Idle
    /\ \E a \in RootsInputs, h \in HtolVals :
          /\ Len(a) <= MaxRootCoeffs
          /\ rootsunitRun = [pc |-> "call", ak |-> a, htol |-> h]

RootsCall ==
    /\ rootsunitRun.pc = "call"
    /\ rootsunitRun' = [pc |-> "done", ak |-> rootsunitRun.ak, htol |-> rootsunitRun.htol,
                        rts |-> rootsunit(rootsunitRun.ak, rootsunitRun.htol)]
    /\ UNCHANGED <<clenshawRun, newtonRun, chopRun, coeffmultRun, transformRun,
                   adaptiveRun, baryRun>>

RootsNext == RootsCall

SpecRoots == RootsInit /\ [][RootsNext]_vars

(* ---- C3, C4 ---- *)

(* C3: every root returned by rootsunit lies in the closed interval
   [-1, 1], also when exactly one candidate survives the filters. *)
C3_RootsInDomain ==
    rootsunitRun.pc = "done" =>
        \A i \in DOMAIN rootsunitRun.rts :
            /\ XLe(Fin(-1), rootsunitRun.rts[i])
            /\ XLe(rootsunitRun.rts[i], Fin(1))

(* C4: the sequence returned by rootsunit is sorted in ascending order. *)
C4_RootsSorted ==
    rootsunitRun.pc = "done" =>
        \A i \in DOMAIN rootsunitRun.rts : \A j \in DOMAIN rootsunitRun.rts :
            i < j => XLe(rootsunitRun.rts[i], rootsunitRun.rts[j])

(***************************************************************************)
(* bary (algorithms.py 109-151)                                            *)
(***************************************************************************)
MaxNodes == 2        \* longest xk (and fk, vk) given to bary
MaxBaryPts == 8      \* longest xx given to bary
FormRatio == 4       \* line 129: point-outer form when xx.size < 4 * xk.size

NodeVals == {0, 1}
BaryPtVals == {0, 1, 2}
FkVals == {0, 1, 2}
VkVals == {-1, 0, 1}

(* dot(a, b) *)
Dot(a, b) == XSum([j \in DOMAIN a |-> XMul(a[j], b[j])])

(* lines 132-133, one pass of the loop over the evaluation points *)
PointOuter(x, fk, xk, vk) ==
    LET tt == [j \in DOMAIN xk |-> XDiv(vk[j], XSub(x, xk[j]))]
    IN XDiv(Dot(tt, fk), XSum(tt))

RECURSIVE NodeOuter(_, _, _, _, _, _, _)
(* lines 139-143 at one evaluation point: the loop over the nodes from node
   j on, then the quotient *)
NodeOuter(x, fk, xk, vk, j, numer, denom) ==
    IF j > Len(xk) THEN XDiv(numer, denom)
    ELSE LET temp == XDiv(vk[j], XSub(x, xk[j]))
         IN NodeOuter(x, fk, xk, vk, j + 1, XAdd(numer, XMul(temp, fk[j])),
                      XAdd(denom, temp))

(* lines 129-143: out before the NaNs are replaced *)
BaryRaw(xx, fk, xk, vk) ==
    IF Len(xx) < FormRatio * Len(xk)
    THEN [i \in DOMAIN xx |-> PointOuter(xx[i], fk, xk, vk)]
    ELSE [i \in DOMAIN xx |-> NodeOuter(xx[i], fk, xk, vk, 1, Fin(0), Fin(0))]

(* find(xx[k] == xk) *)
Matches(x, xk) == {j \in DOMAIN xk : xk[j] = x}

(* as ReplaceNaNs, taking the last matching node *)
ReplaceNaNsLastMatch(out, xx, fk, xk) ==
    [k \in DOMAIN out |->
        IF IsNaN(out[k]) /\ Matches(xx[k], xk) # {}
        THEN fk[CHOOSE j \in Matches(xx[k], xk) : \A h \in Matches(xx[k], xk) : h <= j]
        ELSE out[k]]

(* lines 146-149: every NaN of out whose point is a node gets the value of
   the first such node *)
ReplaceNaNs(out, xx, fk, xk) ==
    [k \in DOMAIN out |->
        IF IsNaN(out[k]) /\ Matches(xx[k], xk) # {}
        THEN fk[CHOOSE j \in Matches(xx[k], xk) : \A h \in Matches(xx[k], xk) : j <= h]
        ELSE out[k]]

(* the whole function *)
bary(xx, fk, xk, vk) == ReplaceNaNs(BaryRaw(xx, fk, xk, vk), xx, fk, xk)

(* s, continued with copies of its last entry up to length n *)
Pad(s, n) == [i \in 1 .. n |-> IF i <= Len(s) THEN s[i] ELSE s[Len(s)]]

(* one or two points, as they are (the point-outer form) or continued to
   MaxBaryPts points (the node-outer form, for up to MaxBaryPts / 4 nodes) *)
BaryPoints ==
    SeqsFromTo(BaryPtVals, 1, 2)
    \cup {Pad(s, MaxBaryPts) : s \in SeqsFromTo(BaryPtVals, 1, 2)}

ToX(s) == [i \in DOMAIN s |-> Fin(s[i])]

BaryInit ==
    /\ clenshawRun = Idle /\ newtonRun = Idle /\ chopRun = Idle
    /\ coeffmultRun = Idle /\ transformRun = Idle /\ adaptiveRun = Idle
    /\ rootsunitRun = Idle
    /\ \E n \in 1 .. MaxNodes :
          \E x \in BaryPoints, f \in [1 .. n -> FkVals], nodes \in [1 .. n -> NodeVals],
             v \in [1 .. n -> VkVals] :
             baryRun = [pc |-> "call", xx |-> ToX(x), fk |-> ToX(f), xk |-> ToX(nodes),
                        vk |-> ToX(v)]

BaryCall ==
    /\ baryRun.pc = "call"
    /\ baryRun' = [baryRun EXCEPT !.pc = "done"] @@
                  [out |-> bary(baryRun.xx, baryRun.fk, baryRun.xk, baryRun.vk)]
    /\ UNCHANGED <<clenshawRun, newtonRun, chopRun, coeffmultRun, transformRun,
                   adaptiveRun, rootsunitRun>>

BaryNext == BaryCall

SpecBary == BaryInit /\ [][BaryNext]_vars

(* ---- C8 ---- *)

(* the barycentric formula at a point x that is no node:
   sum_j (vk_j fk_j / (x - xk_j)) / sum_j (vk_j / (x - xk_j)) *)
BaryFormula(x, fk, xk, vk) ==
    XDiv(XSum([j \in DOMAIN xk |-> XDiv(XMul(vk[j], fk[j]), XSub(x, xk[j]))]),
         XSum([j \in DOMAIN xk |-> XDiv(vk[j], XSub(x, xk[j]))]))

(* C8: in both forms, an evaluation point equal to a node gets the value
   paired with the first such node, never NaN; the output at a point that
   is no node is left as the barycentric formula gives it. *)
C8_NodeHitsPatched ==
    baryRun.pc = "done" =>
        /\ Len(baryRun.out) = Len(baryRun.xx)
        /\ \A i \in DOMAIN baryRun.xx :
              LET hits == Matches(baryRun.xx[i], baryRun.xk)
              IN IF hits # {}
                 THEN /\ \E j \in hits :
                            /\ \A h \in hits : j <= h
                            /\ baryRun.out[i] = baryRun.fk[j]
                      /\ ~IsNaN(baryRun.out[i])
                 ELSE baryRun.out[i]
                         = BaryFormula(baryRun.xx[i], baryRun.fk, baryRun.xk, baryRun.vk)

(* the node-outer form ran on points of which one is a node given twice
   with different values (the first of them not 0) and another is no node *)
C8_Witness ==
    /\ baryRun.pc = "done"
    /\ Len(baryRun.xx) >= FormRatio * Len(baryRun.xk)
    /\ \E i \in DOMAIN baryRun.xx :
          /\ Cardinality(Matches(baryRun.xx[i], baryRun.xk)) = 2
          /\ baryRun.fk[1] # baryRun.fk[2]
          /\ baryRun.out[i] # Fin(0)
    /\ \E i \in DOMAIN baryRun.xx :
          /\ Matches(baryRun.xx[i], baryRun.xk) = {}
          /\ IsFin(baryRun.out[i])

(***************************************************************************)
(* Complex numbers for the FFTs, exactly.  With w = exp(2 pi i / N), a     *)
(* number of the field Q(i, w) is [re, im, d]: re and im are sequences of  *)
(* N integers and the number is                                            *)
(*     (sum_k re[k+1] w^k  +  i sum_k im[k+1] w^k) / d.                    *)
(* The representation is not unique; CIsZero decides whether a number is 0 *)
(* by reducing modulo the N-th cyclotomic polynomial.                      *)
(***************************************************************************)
RECURSIVE SumTo(_, _)
(* f[1] + ... + f[n] *)
SumTo(f, n) == IF n = 0 THEN 0 ELSE f[n] + SumTo(f, n - 1)

LCM(a, b) == (a * b) \div GCD(a, b)

VZero(N) == [k \in 1 .. N |-> 0]
VAdd(a, b) == [k \in DOMAIN a |-> a[k] + b[k]]
VSub(a, b) == [k \in DOMAIN a |-> a[k] - b[k]]
VScale(a, c) == [k \in DOMAIN a |-> c * a[k]]
(* times w^m *)
VRot(a, m) == LET N == Len(a) IN [k \in 1 .. N |-> a[((k - 1 - m) % N) + 1]]
(* complex conjugate of sum_k a_k w^k with integers a_k *)
VRev(a) == LET N == Len(a) IN [k \in 1 .. N |-> a[((N - (k - 1)) % N) + 1]]
(* product, with w^N = 1 *)
VConv(a, b) ==
    LET N == Len(a)
    IN [k \in 1 .. N |-> SumTo([j \in 1 .. N |-> a[j] * b[((k - j) % N) + 1]], N)]

(* the cyclotomic polynomials, lowest coefficient first *)
Cyclotomic(N) ==
    CASE N = 1 -> <<-1, 1>>
      [] N = 2 -> <<1, 1>>
      [] N = 3 -> <<1, 1, 1>>
      [] N = 4 -> <<1, 0, 1>>
      [] N = 5 -> <<1, 1, 1, 1, 1>>
      [] N = 6 -> <<1, -1, 1>>
      [] N = 7 -> <<1, 1, 1, 1, 1, 1, 1>>
      [] N = 8 -> <<1, 0, 0, 0, 1>>
      [] N = 9 -> <<1, 0, 0, 1, 0, 0, 1>>
      [] N = 10 -> <<1, -1, 1, -1, 1>>
      [] N = 11 -> <<1, 1, 1, 1, 1, 1, 1, 1, 1, 1, 1>>
      [] N = 12 -> <<1, 0, -1, 0, 1>>

RECURSIVE PolyRem(_, _, _)
(* the remainder of the polynomial a by the monic polynomial phi, clearing
   the coefficients of degree top, top - 1, ... *)
PolyRem(a, phi, top) ==
    LET deg == Len(phi) - 1
    IN IF top < deg THEN a
       ELSE LET c == a[top + 1]
                b == [k \in DOMAIN a |->
                        IF k - 1 >= top - deg /\ k - 1 <= top
                        THEN a[k] - c * phi[k - (top - deg)]
                        ELSE a[k]]
            IN PolyRem(b, phi, top - 1)

(* sum_k a_k w^k = 0 *)
VIsZero(a) ==
    LET N == Len(a)
        r == PolyRem(a, Cyclotomic(N), N - 1)
    IN \A k \in DOMAIN r : r[k] = 0

(* the Gaussian rational (a + b i) / d *)
CNum(N, a, b, d) ==
    [re |-> [k \in 1 .. N |-> IF k = 1 THEN a ELSE 0],
     im |-> [k \in 1 .. N |-> IF k = 1 THEN b ELSE 0],
     d |-> d]

CAdd(x, y) ==
    LET l == LCM(x.d, y.d)
        p == l \div x.d
        q == l \div y.d
    IN [re |-> VAdd(VScale(x.re, p), VScale(y.re, q)),
        im |-> VAdd(VScale(x.im, p), VScale(y.im, q)),
        d |-> l]

CNeg(x) == [re |-> VScale(x.re, -1), im |-> VScale(x.im, -1), d |-> x.d]

CSub(x, y) == CAdd(x, CNeg(y))

CMul(x, y) ==
    [re |-> VSub(VConv(x.re, y.re), VConv(x.im, y.im)),
     im |-> VAdd(VConv(x.re, y.im), VConv(x.im, y.re)),
     d |-> x.d * y.d]

(* (p / q) x for integers p and q > 0 *)
CScale(x, p, q) == [re |-> VScale(x.re, p), im |-> VScale(x.im, p), d |-> x.d * q]

(* w^m x *)
CRot(x, m) == [re |-> VRot(x.re, m), im |-> VRot(x.im, m), d |-> x.d]

CConj(x) == [re |-> VRev(x.re), im |-> VScale(VRev(x.im), -1), d |-> x.d]

(* 1j * x *)
CTimesI(x) == [re |-> VScale(x.im, -1), im |-> x.re, d |-> x.d]

(* real(x) = (x + conj(x)) / 2 *)
CReal(x) == CScale(CAdd(x, CConj(x)), 1, 2)

(* imag(x) = (x - conj(x)) / 2i = -i (x - conj(x)) / 2 *)
CImag(x) == CScale(CTimesI(CSub(x, CConj(x))), -1, 2)

(* x = 0.  1 and i are independent over Q(w) unless 4 divides N, where
   i = w^(N/4) *)
CIsZero(x) ==
    LET N == Len(x.re)
    IN IF N % 4 = 0 THEN VIsZero(VAdd(x.re, VRot(x.im, N \div 4)))
       ELSE VIsZero(x.re) /\ VIsZero(x.im)

CEq(x, y) == CIsZero(CSub(x, y))

(* isreal(x): the imaginary part is zero *)
CIsReal(x) == CIsZero(CSub(x, CConj(x)))

RECURSIVE CSum(_, _)
(* s[1] + ... + s[n] *)
CSum(s, n) == IF n = 1 THEN s[1] ELSE CAdd(CSum(s, n - 1), s[n])

(* fft(x)[k] = sum_j x[j] exp(-2 pi i j k / N), indices from 0 *)
fft(x) ==
    LET N == Len(x)
    IN [k \in 1 .. N |-> CSum([j \in 1 .. N |-> CRot(x[j], 0 - (j - 1) * (k - 1))], N)]

(* ifft(x)[j] = (1/N) sum_k x[k] exp(+2 pi i j k / N), indices from 0 *)
ifft(x) ==
    LET N == Len(x)
    IN [j \in 1 .. N |->
          CScale(CSum([k \in 1 .. N |-> CRot(x[k], (j - 1) * (k - 1))], N), 1, N)]

(* x[::-1] *)
Reverse(s) == [i \in 1 .. Len(s) |-> s[Len(s) + 1 - i]]

(***************************************************************************)
(* coeffmult (algorithms.py 247-257)                                       *)
(*                                                                         *)
(* A coefficient is a Gaussian integer <<a, b>> = a + b i; the numbers of  *)
(* the call live in Q(i, w) for N = 2 n - 1, the length of the FFTs.       *)
(***************************************************************************)
MaxMulLen == 3       \* longest fc and gc given to coeffmult

RealMulVals == {<<-1, 0>>, <<0, 0>>, <<1, 0>>}
MulVals == RealMulVals \cup {<<0, 1>>}

(* as Symmetrize, without the factor 2 of the first entry *)
SymmetrizeNoDouble(c) == <<c[1]>> \o Tail(c) \o Reverse(Tail(c))

(* append(2.*fc[:1], (fc[1:], fc[:0:-1])) *)
Symmetrize(c) == <<CScale(c[1], 2, 1)>> \o Tail(c) \o Reverse(Tail(c))

(* line 253: append(ak[:1], ak[1:] + ak[:0:-1]) * .25 *)
Fold(ak) ==
    LET N == Len(ak)
    IN [k \in 1 .. N |->
          IF k = 1 THEN CScale(ak[1], 1, 4)
          ELSE CScale(CAdd(ak[k], ak[N + 2 - k]), 1, 4)]

(* the whole function; fc and gc are sequences of numbers of Q(i, w) *)
coeffmult(fc, gc) ==
    LET n == Len(fc)
        Fc == fft(Symmetrize(fc))
        Gc == fft(Symmetrize(gc))
        ak == ifft([k \in DOMAIN Fc |-> CMul(Fc[k], Gc[k])])
        cut == SubSeq(Fold(ak), 1, n)
        inputcfs == fc \o gc
    IN IF \A k \in DOMAIN inputcfs : CIsReal(inputcfs[k])
       THEN [k \in DOMAIN cut |-> CReal(cut[k])]
       ELSE cut

(* the coefficient sequence c as numbers of Q(i, w), N = 2 Len(c) - 1 *)
MulArg(c) == [k \in DOMAIN c |-> CNum(2 * Len(c) - 1, c[k][1], c[k][2], 1)]

CoeffmultInit ==
    /\ clenshawRun = Idle /\ newtonRun = Idle /\ chopRun = Idle
    /\ baryRun = Idle /\ transformRun = Idle /\ adaptiveRun = Idle
    /\ rootsunitRun = Idle
    /\ \E n \in 1 .. MaxMulLen :
          \E f \in [1 .. n -> MulVals], g \in [1 .. n -> RealMulVals] :
             /\ \A k \in 2 .. n : f[k] \in RealMulVals
             /\ coeffmultRun = [pc |-> "call", fc |-> f, gc |-> g]

CoeffmultCall ==
    /\ coeffmultRun.pc = "call"
    /\ coeffmultRun' = [pc |-> "done", fc |-> coeffmultRun.fc, gc |-> coeffmultRun.gc,
                        out |-> coeffmult(MulArg(coeffmultRun.fc), MulArg(coeffmultRun.gc))]
    /\ UNCHANGED <<clenshawRun, newtonRun, chopRun, baryRun, transformRun,
                   adaptiveRun, rootsunitRun>>

CoeffmultNext == CoeffmultCall

SpecCoeffmult == CoeffmultInit /\ [][CoeffmultNext]_vars

(* ---- C1 ---- *)

(* Gaussian integers: product and sum *)
GMul(x, y) == <<x[1] * y[1] - x[2] * y[2], x[1] * y[2] + x[2] * y[1]>>
GAdd(x, y) == <<x[1] + y[1], x[2] + y[2]>>

RECURSIVE GSum(_, _)
GSum(s, n) == IF n = 0 THEN <<0, 0>> ELSE GAdd(s[n], GSum(s, n - 1))

(* twice the coefficient of T_m in the exact product of the series fc and
   gc, from T_j T_k = (T_{j+k} + T_{|j-k|}) / 2 *)
TwiceProductCoeff(fc, gc, m) ==
    LET n == Len(fc)
        term(j, k) ==
            LET p == GMul(At(fc, j), At(gc, k))
                c == (IF j + k = m THEN 1 ELSE 0) + (IF Abs(j - k) = m THEN 1 ELSE 0)
            IN <<c * p[1], c * p[2]>>
    IN GSum([t \in 1 .. n * n |-> term((t - 1) \div n, (t - 1) % n)], n * n)

RealInputs == \A k \in DOMAIN coeffmultRun.fc :
                  coeffmultRun.fc[k][2] = 0 /\ coeffmultRun.gc[k][2] = 0

(* entry i of out is half the Gaussian integer t *)
OutIsHalf(i, t) ==
    CEq(At(coeffmultRun.out, i), CNum(2 * Len(coeffmultRun.fc) - 1, t[1], t[2], 2))

(* C1 as claimed: for real fc and gc of equal length n >= 1, coeffmult
   returns exactly the first n coefficients of the exact product. *)
C1_TruncatedExactProduct ==
    (coeffmultRun.pc = "done" /\ RealInputs) =>
        /\ Len(coeffmultRun.out) = Len(coeffmultRun.fc)
        /\ \A i \in 0 .. (Len(coeffmultRun.fc) - 1) :
              OutIsHalf(i, TwiceProductCoeff(coeffmultRun.fc, coeffmultRun.gc, i))

(* C1 as amended: coeffmult returns n coefficients; entry 0 is coefficient
   0 of the exact product and entry i >= 1 is the sum of its coefficients i
   and 2n-1-i (the degrees >= n fold back); so the result is the truncated
   exact product whenever the exact product has no term of degree >= n. *)
C1_AliasedProduct ==
    (coeffmultRun.pc = "done" /\ RealInputs) =>
        LET n == Len(coeffmultRun.fc)
            c2(m) == TwiceProductCoeff(coeffmultRun.fc, coeffmultRun.gc, m)
        IN /\ Len(coeffmultRun.out) = n
           /\ OutIsHalf(0, c2(0))
           /\ \A i \in 1 .. (n - 1) : OutIsHalf(i, GAdd(c2(i), c2(2 * n - 1 - i)))
           /\ (\A m \in n .. (2 * n - 2) : c2(m) = <<0, 0>>) =>
                 \A i \in 0 .. (n - 1) : OutIsHalf(i, c2(i))

(* two real series of length 3 whose product has a T_3 term were
   multiplied, and entry 2 of the result is not 0 *)
C1_Witness ==
    /\ coeffmultRun.pc = "done"
    /\ RealInputs
    /\ Len(coeffmultRun.fc) = 3
    /\ TwiceProductCoeff(coeffmultRun.fc, coeffmultRun.gc, 3) # <<0, 0>>
    /\ ~OutIsHalf(2, <<0, 0>>)

(***************************************************************************)
(* vals2coeffs2 and coeffs2vals2 (algorithms.py 283-323), composed as      *)
(* coeffs2vals2(vals2coeffs2(vals)).  The values are Gaussian integers;    *)
(* the numbers of both calls live in Q(i, w) for N = 2 n - 2.              *)
(***************************************************************************)
MaxValsLen == 4      \* longest vals given to vals2coeffs2

TransformVals == {<<0, 0>>, <<1, 0>>, <<-1, 0>>, <<0, 1>>, <<1, 1>>}

AllReal(s) == \A k \in DOMAIN s : CIsReal(s[k])
(* isreal(1j * s).all() *)
AllImag(s) == \A k \in DOMAIN s : CIsReal(CTimesI(s[k]))

(* real(s), imag(s) and 1j * s, entry by entry *)
RealParts(s) == [k \in DOMAIN s |-> CReal(s[k])]
ImagParts(s) == [k \in DOMAIN s |-> CImag(s[k])]
TimesI(s) == [k \in DOMAIN s |-> CTimesI(s[k])]

(* s[1:n-1] scaled by p/q, the other entries kept *)
ScaleInterior(s, p, q) ==
    [k \in DOMAIN s |-> IF k > 1 /\ k < Len(s) THEN CScale(s[k], p, q) ELSE s[k]]

(* lines 286-301 *)
vals2coeffs2(vals) ==
    LET n == Len(vals)
        tmp == Reverse(vals) \o SubSeq(vals, 2, n - 1)
        coeffs == IF AllReal(vals) THEN RealParts(ifft(tmp))
                  ELSE IF AllImag(vals)
                       THEN TimesI(RealParts(ifft(ImagParts(tmp))))
                  ELSE ifft(tmp)
    IN IF n <= 1 THEN vals
       ELSE ScaleInterior(SubSeq(coeffs, 1, n), 2, 1)

(* as coeffs2vals2, without line 312 *)
coeffs2vals2_no_halving(coeffs) ==
    LET n == Len(coeffs)
        tmp == coeffs \o Reverse(SubSeq(coeffs, 2, n - 1))
        vals == IF AllReal(coeffs) THEN RealParts(fft(tmp))
                ELSE IF AllImag(coeffs)
                     THEN TimesI(RealParts(fft(ImagParts(tmp))))
                ELSE fft(tmp)
    IN IF n <= 1 THEN coeffs
       ELSE Reverse(SubSeq(vals, 1, n))

(* lines 307-323 *)
coeffs2vals2(coeffs) ==
    LET n == Len(coeffs)
        halved == ScaleInterior(coeffs, 1, 2)
        tmp == halved \o Reverse(SubSeq(halved, 2, n - 1))
        vals == IF AllReal(halved) THEN RealParts(fft(tmp))
                ELSE IF AllImag(halved)
                     THEN TimesI(RealParts(fft(ImagParts(tmp))))
                ELSE fft(tmp)
    IN IF n <= 1 THEN coeffs
       ELSE Reverse(SubSeq(vals, 1, n))

(* the length of the FFTs for n values *)
TransformN(n) == IF n <= 1 THEN 1 ELSE 2 * n - 2

(* the values v as numbers of Q(i, w) *)
TransformArg(v) == [k \in DOMAIN v |-> CNum(TransformN(Len(v)), v[k][1], v[k][2], 1)]

TransformInit ==
    /\ clenshawRun = Idle /\ newtonRun = Idle /\ chopRun = Idle
    /\ baryRun = Idle /\ coeffmultRun = Idle /\ adaptiveRun = Idle
    /\ rootsunitRun = Idle
    /\ \E v \in SeqsFromTo(TransformVals, 1, MaxValsLen) :
          transformRun = [pc |-> "vals2coeffs2", vals |-> v, coeffs |-> <<>>, out |-> <<>>]

Vals2CoeffsCall ==
    /\ transformRun.pc = "vals2coeffs2"
    /\ transformRun' = [transformRun EXCEPT
                           !.pc = "coeffs2vals2",
                           !.coeffs = vals2coeffs2(TransformArg(transformRun.vals))]
    /\ UNCHANGED <<clenshawRun, newtonRun, chopRun, baryRun, coeffmultRun,
                   adaptiveRun, rootsunitRun>>

Coeffs2ValsCall ==
    /\ transformRun.pc = "coeffs2vals2"
    /\ transformRun' = [transformRun EXCEPT
                           !.pc = "done",
                           !.out = coeffs2vals2(transformRun.coeffs)]
    /\ UNCHANGED <<clenshawRun, newtonRun, chopRun, baryRun, coeffmultRun,
                   adaptiveRun, rootsunitRun>>

TransformNext == Vals2CoeffsCall \/ Coeffs2ValsCall

SpecTransform == TransformInit /\ [][TransformNext]_vars

(* ---- C7 ---- *)

(* C7: for every real, purely imaginary or general complex v of length
   n >= 2, coeffs2vals2(vals2coeffs2(v)) equals v entry for entry, in the
   same order and with the same length. *)
C7_RoundTrip ==
    (transformRun.pc = "done" /\ Len(transformRun.vals) >= 2) =>
        /\ Len(transformRun.out) = Len(transformRun.vals)
        /\ Len(transformRun.coeffs) = Len(transformRun.vals)
        /\ \A k \in DOMAIN transformRun.vals :
              CEq(transformRun.out[k], TransformArg(transformRun.vals)[k])

(* a round trip of four values that are neither all real nor all imaginary,
   not a palindrome, with a non-zero interior coefficient *)
C7_Witness ==
    /\ transformRun.pc = "done"
    /\ Len(transformRun.vals) = 4
    /\ \E k \in DOMAIN transformRun.vals : transformRun.vals[k][1] # 0
    /\ \E k \in DOMAIN transformRun.vals : transformRun.vals[k][2] # 0
    /\ transformRun.vals # Reverse(transformRun.vals)
    /\ ~CIsZero(transformRun.coeffs[2])

====
